---- MODULE Spec2Model ----
(***************************************************************************)
(* follow - watch-like program with pager capabilities (src/follow.py).    *)
(*                                                                         *)
(* The model is the main loop of follow.py: the optional command           *)
(* execution (lines 73-94), the render step with the offset update (lines  *)
(* 96-165), the computation of the poll timeout (lines 170-182), and the   *)
(* input poll with the key handling (lines 185-222).                       *)
(*                                                                         *)
(* Time is counted in ticks; one millisecond is TicksPerMilli ticks, so    *)
(* the rounding of the remaining time to whole milliseconds (line 174) is  *)
(* visible.  args.interval is Interval ticks.                              *)
(*                                                                         *)
(* Spec follows the command output by its extents (res_max_height,         *)
(* res_max_width).  The rows themselves, the width of the display and the  *)
(* addstr() calls of the drawing loop (lines 140-163) are followed in      *)
(* SpecDraw, and the offset update on its own inputs in SpecViewport.      *)
(***************************************************************************)
EXTENDS Integers, Sequences, FiniteSets, TLC

\* ---------------------------------------------------------------- bounds
\* args.interval, in ticks
Interval == 2
\* ticks per millisecond (resolution of the modelled monotonic clock)
TicksPerMilli == 2
\* the monotonic clock is observed up to this tick
MaxTime == 5
\* longest command execution, in ticks (longer than Interval: overruns happen)
MaxLatency == 5
\* largest number of rows and longest row of the command output
MaxHeight == 2
MaxWidth == 2
\* largest terminal
MaxScreenHeight == 2
MaxScreenWidth == 1
\* how far the unbounded keys are followed past the edges of the content
MaxPast == 1
\* inputs of the offset update taken alone (SpecViewport): content height,
\* display height, size of a delta, distance of an offset from the content
ViewMaxExtent == 5
ViewMaxDisplay == 3
ViewMaxDelta == 10
ViewMaxPast == 2
\* inputs of the drawing loop taken alone (SpecDraw): number of rows, length
\* of a row, largest h_offset, distance of an offset from the content, and
\* the largest terminal height and width
DrawMaxRows == 2
DrawMaxLen == 4
DrawMaxOffset == 10
DrawMaxPast == 1
DrawMaxScreen == 2

\* ------------------------------------------------------- program constants
\* last_time = None (line 60): no refresh has been scheduled yet
NoTime == -1
\* sys.maxsize (line 220), the value on a 32-bit build
sys_maxsize == 2147483647

VARIABLES
    pc,              \* position in the loop: "start", "render", "wait", "poll", "done"
    no_title,        \* args.no_title
    now,             \* time.monotonic(), in ticks
    refresh,         \* 0: no refresh, 1: timer-driven, 2: first or manual
    last_time,       \* target time of the most recent refresh
    res_max_height,  \* len( res_lines )
    res_max_width,   \* max( len( line ) for line in res_lines )
    res_lines,       \* the rows of the output, each row by its length (SpecDraw)
    display_height,  \* screen_height - title_height of the last render
    display_width,   \* screen_width of the last render (SpecDraw)
    screen,          \* the addstr() calls of the last render (SpecDraw)
    v_offset,
    h_offset,
    v_end,           \* pin to end
    v_diff,
    h_diff,
    past,
    terminal,        \* "curses" from initscr() (line 50) to endwin() (line 229)
    exit_cause,      \* what ended the loop: "none", "quit", "spawn", "decode"
    executions,      \* history: has the command been executed (res_lines set)
    grid_origin,     \* history: last_time as set by the last from-now refresh
    grid_count       \* history: timer-driven refreshes since grid_origin

vars == << pc, no_title, now, refresh, last_time, res_max_height, res_max_width,
           res_lines, display_height, display_width, screen, v_offset, h_offset,
           v_end, v_diff, h_diff, past, terminal, exit_cause, executions,
           grid_origin, grid_count >>

\* ---------------------------------------------------------------- helpers
\* Python's max( a, b ) and min( a, b )
Max(a, b) == IF a >= b THEN a ELSE b

Min(a, b) == IF a <= b THEN a ELSE b

\* Python's int( num / den ) for den > 0: truncation toward zero
TruncDiv(num, den) == IF num >= 0 THEN num \div den ELSE -((-num) \div den)

\* title_height (lines 99-102)
TitleHeight(noTitle) == IF noTitle THEN 0 ELSE 1

\* max( extent - display, 0 ): the last fully-filling offset (lines 125, 129, 136)
EndOffset(extent, display) == Max(extent - display, 0)

\* lines 129 and 136: clamped move with diff > 0
ClampedForwardUncapped(offset, diff, extent, display) == Max(offset, offset + diff)

ClampedForwardOffByOne(offset, diff, extent, display) ==
    Max(offset, Min(offset + diff, Max(extent - display + 1, 0)))

ClampedForward(offset, diff, extent, display) ==
    Max(offset, Min(offset + diff, EndOffset(extent, display)))

\* lines 131 and 138: clamped move with diff < 0
ClampedBackwardNoFloor(offset, diff) == Min(offset, offset + diff)

ClampedBackwardEager(offset, diff) == Max(offset + diff, 0)

ClampedBackward(offset, diff) == Min(offset, Max(offset + diff, 0))

\* lines 124-131: the vertical offset used by the render
VOffsetPastFirst(end, offset, diff, isPast, extent, display) ==
    IF diff # 0 /\ isPast THEN offset + diff
    ELSE IF end THEN EndOffset(extent, display)
    ELSE IF diff > 0 THEN ClampedForward(offset, diff, extent, display)
    ELSE IF diff < 0 THEN ClampedBackward(offset, diff)
    ELSE offset

VOffsetClampedPast(end, offset, diff, isPast, extent, display) ==
    IF end THEN EndOffset(extent, display)
    ELSE IF diff > 0 THEN ClampedForward(offset, diff, extent, display)
    ELSE IF diff < 0 THEN ClampedBackward(offset, diff)
    ELSE offset

VOffsetEagerClamp(end, offset, diff, isPast, extent, display) ==
    IF end THEN EndOffset(extent, display)
    ELSE IF diff # 0 /\ isPast THEN offset + diff
    ELSE Max(Min(offset + diff, EndOffset(extent, display)), 0)

VOffsetUpdate(end, offset, diff, isPast, extent, display) ==
    IF end THEN EndOffset(extent, display)
    ELSE IF diff # 0 /\ isPast THEN offset + diff
    ELSE IF diff > 0 THEN ClampedForward(offset, diff, extent, display)
    ELSE IF diff < 0 THEN ClampedBackward(offset, diff)
    ELSE offset

\* lines 133-138: the horizontal offset used by the render
HOffsetUpdate(offset, diff, isPast, extent, display) ==
    IF diff # 0 /\ isPast THEN offset + diff
    ELSE IF diff > 0 THEN ClampedForward(offset, diff, extent, display)
    ELSE IF diff < 0 THEN ClampedBackward(offset, diff)
    ELSE offset

\* lines 74-77: the target time of the refresh that starts at time t
ScheduledFromNow(flag, last, t) == t

ScheduledNoBacklog(flag, last, t) == IF flag > 1 THEN t ELSE Max(last + Interval, t)

ScheduledTime(flag, last, t) == IF flag > 1 THEN t ELSE last + Interval

\* lines 172-174: int( rem_time * 1000 + 0.5 ), rem_time being remTicks ticks
Millis(remTicks) == TruncDiv(2 * remTicks + TicksPerMilli, 2 * TicksPerMilli)

\* lines 170-177: the argument of stdscr.timeout()
WaitTimeoutUnclamped(last, t) == Millis(Interval - (t - last))

WaitTimeout(last, t) == Max(Millis(Interval - (t - last)), 0)

\* line 94: max( len( line ) for line in res_lines ), rows given by their lengths
MaxLen(lines) == CHOOSE m \in {lines[i] : i \in 1..Len(lines)} :
                    \A i \in 1..Len(lines) : lines[i] <= m

\* lines 140-163: the addstr() calls of one render; row is the index of the
\* line in res_lines ( from 0 ), from and to are the bounds of its slice
\* line[h_start:h_end], y and x the screen position of the call
DrawCallsNoSkip(lines, vo, ho, dh, dw, th) ==
    IF vo > -dh /\ vo < Len(lines) /\ ho > -dw /\ ho < MaxLen(lines)
    THEN LET v_disp_off == IF vo < 0 THEN -vo ELSE 0
             v_start == IF vo < 0 THEN 0 ELSE vo
             h_disp_off == IF ho < 0 THEN -ho ELSE 0
             h_start == IF ho < 0 THEN 0 ELSE ho
         IN { [y |-> v_disp_off + (r - v_start) + th,
               x |-> h_disp_off,
               row |-> r,
               from |-> h_start,
               to |-> Min(lines[r + 1], ho + dw)] :
              r \in v_start..(Min(vo + dh, Len(lines)) - 1) }
    ELSE {}

DrawCalls(lines, vo, ho, dh, dw, th) ==
    IF vo > -dh /\ vo < Len(lines) /\ ho > -dw /\ ho < MaxLen(lines)
    THEN LET v_disp_off == IF vo < 0 THEN -vo ELSE 0
             v_start == IF vo < 0 THEN 0 ELSE vo
             h_disp_off == IF ho < 0 THEN -ho ELSE 0
             h_start == IF ho < 0 THEN 0 ELSE ho
         IN { [y |-> v_disp_off + (r - v_start) + th,
               x |-> h_disp_off,
               row |-> r,
               from |-> h_start,
               to |-> Min(lines[r + 1], ho + dw)] :
              r \in { q \in v_start..(Min(vo + dh, Len(lines)) - 1) :
                        ~(lines[q + 1] <= ho) } }
    ELSE {}

\* line 161: the characters an addstr() call puts on the screen, each as
\* << screen row, screen column, content row, content column >>; a slice
\* line[from:to] with from >= to is empty
CallCells(call) ==
    { << call.y, call.x + (col - call.from), call.row, col >> :
        col \in call.from..(call.to - 1) }

\* line 213: +display_height // 2
HalfPageDown(display) == display \div 2

\* line 215: -display_height // 2, which Python reads as ( -display_height ) // 2
HalfPageUp(display) == (-display) \div 2

\* ------------------------------------------------------------------- Init
\* lines 50-69
Init ==
    /\ pc = "start"
    /\ no_title \in BOOLEAN
    /\ now = 0
    /\ refresh = 2
    /\ last_time = NoTime
    /\ res_max_height = 0
    /\ res_max_width = 0
    /\ res_lines = << >>
    /\ display_height = 0
    /\ display_width = 0
    /\ screen = {}
    /\ v_offset = 0
    /\ h_offset = 0
    /\ v_end = FALSE
    /\ v_diff = 0
    /\ h_diff = 0
    /\ past = FALSE
    /\ terminal = "curses"
    /\ exit_cause = "none"
    /\ executions = 0
    /\ grid_origin = NoTime
    /\ grid_count = 0

\* ---------------------------------------------------------------- actions
\* Spec and SpecViewport do not follow the rows, the display width and the
\* addstr() calls
Untracked == UNCHANGED << res_lines, display_width, screen >>

\* the loop goes on: the terminal session stays as it is
Running == UNCHANGED << terminal, exit_cause >>

\* lines 223-229: the loop is left by an exception; the finally clause
\* restores the terminal
TeardownSkipped(cause) ==
    /\ pc' = "done"
    /\ exit_cause' = cause
    /\ UNCHANGED terminal

Teardown(cause) ==
    /\ pc' = "done"
    /\ exit_cause' = cause
    /\ terminal' = "restored"

\* lines 73-94: refresh is due; schedule it and run the command, which takes
\* `latency` ticks and prints `height` rows, the longest of `width` characters
\* ( "".split( "\n" ) has one element, so height >= 1 )
Execute ==
    /\ pc = "start"
    /\ refresh > 0
    /\ \E latency \in 0..MaxLatency, height \in 1..MaxHeight, width \in 0..MaxWidth :
        /\ now + latency <= MaxTime
        /\ last_time' = ScheduledTime(refresh, last_time, now)
        /\ grid_origin' = IF refresh > 1 THEN now ELSE grid_origin
        /\ grid_count' = IF refresh > 1 THEN 0 ELSE grid_count + 1
        /\ now' = now + latency
        /\ res_max_height' = height
        /\ res_max_width' = width
    /\ refresh' = 0
    /\ executions' = 1
    /\ pc' = "render"
    /\ Running
    /\ Untracked
    /\ UNCHANGED << no_title, display_height, v_offset, h_offset, v_end, v_diff,
                    h_diff, past >>

\* lines 73-85 and 223-229: the refresh is scheduled, then Popen() raises
\* ( the command cannot be spawned ); the clock is not read again
ExecuteSpawnFails ==
    /\ pc = "start"
    /\ refresh > 0
    /\ last_time' = ScheduledTime(refresh, last_time, now)
    /\ grid_origin' = IF refresh > 1 THEN now ELSE grid_origin
    /\ grid_count' = IF refresh > 1 THEN 0 ELSE grid_count + 1
    /\ refresh' = 0
    /\ Teardown("spawn")
    /\ Untracked
    /\ UNCHANGED << no_title, now, res_max_height, res_max_width, display_height,
                    v_offset, h_offset, v_end, v_diff, h_diff, past, executions >>

\* lines 73-90 and 223-229: the command has run, then stdout.decode() raises;
\* res_lines and the extents keep their values, the clock is not read again
ExecuteDecodeFails ==
    /\ pc = "start"
    /\ refresh > 0
    /\ last_time' = ScheduledTime(refresh, last_time, now)
    /\ grid_origin' = IF refresh > 1 THEN now ELSE grid_origin
    /\ grid_count' = IF refresh > 1 THEN 0 ELSE grid_count + 1
    /\ refresh' = 0
    /\ Teardown("decode")
    /\ Untracked
    /\ UNCHANGED << no_title, now, res_max_height, res_max_width, display_height,
                    v_offset, h_offset, v_end, v_diff, h_diff, past, executions >>

\* lines 96-165: read the screen size, update the offsets and draw
Render ==
    /\ \/ pc = "render"
       \/ pc = "start" /\ refresh = 0
    /\ \E screen_height \in 1..MaxScreenHeight, screen_width \in 1..MaxScreenWidth :
        LET dh == screen_height - TitleHeight(no_title)
            dw == screen_width
        IN /\ display_height' = dh
           /\ v_offset' = VOffsetUpdate(v_end, v_offset, v_diff, past, res_max_height, dh)
           /\ h_offset' = HOffsetUpdate(h_offset, h_diff, past, res_max_width, dw)
    /\ pc' = "wait"
    /\ Running
    /\ Untracked
    /\ UNCHANGED << no_title, now, refresh, last_time, res_max_height, res_max_width,
                    v_end, v_diff, h_diff, past, executions, grid_origin, grid_count >>

\* lines 170-182: hand the timeout to the terminal ( it is PollTimeout until
\* getch() returns ) and reset the scroll intent
ComputeWaitNoReset ==
    /\ pc = "wait"
    /\ pc' = "poll"
    /\ Running
    /\ Untracked
    /\ UNCHANGED << no_title, now, refresh, last_time, res_max_height, res_max_width,
                    display_height, v_offset, h_offset, v_end, v_diff, h_diff, past,
                    executions, grid_origin, grid_count >>

ComputeWait ==
    /\ pc = "wait"
    /\ v_diff' = 0
    /\ h_diff' = 0
    /\ past' = FALSE
    /\ pc' = "poll"
    /\ Running
    /\ Untracked
    /\ UNCHANGED << no_title, now, refresh, last_time, res_max_height, res_max_width,
                    display_height, v_offset, h_offset, v_end, executions,
                    grid_origin, grid_count >>

\* lines 170-177: the timeout in force during the poll, in milliseconds; the
\* clock does not advance between its computation and the call of getch()
PollTimeout == WaitTimeout(last_time, now)

\* line 185: getch() returns after dt ticks
Getch(dt) ==
    /\ pc = "poll"
    /\ now + dt <= MaxTime
    /\ now' = now + dt
    /\ Untracked
    /\ UNCHANGED << no_title, last_time, res_max_height, res_max_width,
                    display_height, h_offset, executions, grid_origin, grid_count >>

\* line 185: getch() returns a key, which was pending already ( dt = 0 ) or
\* is pressed before the timeout runs out
GetchKey == \E dt \in 0..(PollTimeout * TicksPerMilli) : Getch(dt)

\* lines 188-189: the timeout ran out, getch() returned -1
KeyNoneNoRefresh ==
    /\ Getch(PollTimeout * TicksPerMilli)
    /\ pc' = "start"
    /\ Running
    /\ UNCHANGED << refresh, v_offset, v_end, v_diff, h_diff, past >>

KeyNone ==
    /\ Getch(PollTimeout * TicksPerMilli)
    /\ refresh' = 1
    /\ pc' = "start"
    /\ Running
    /\ UNCHANGED << v_offset, v_end, v_diff, h_diff, past >>

\* lines 190-191: 'r', 'R'
KeyRefresh ==
    /\ GetchKey
    /\ refresh' = 2
    /\ pc' = "start"
    /\ Running
    /\ UNCHANGED << v_offset, v_end, v_diff, h_diff, past >>

\* lines 192-193 and 223-229: 'q'
KeyQuit ==
    /\ GetchKey
    /\ Teardown("quit")
    /\ UNCHANGED << refresh, v_offset, v_end, v_diff, h_diff, past >>

\* a key that leaves a scroll intent: v_offset, v_diff, h_diff, past as given
KeyScroll(vo, vd, hd, p) ==
    /\ pc = "poll"
    /\ v_offset' = vo
    /\ v_diff' = vd
    /\ h_diff' = hd
    /\ past' = p
    /\ pc' = "start"
    /\ Running
    /\ UNCHANGED << refresh, v_end >>
    /\ GetchKey

\* lines 194-195: KEY_LEFT
KeyLeftPast == KeyScroll(v_offset, v_diff, -1, TRUE)

KeyLeft == KeyScroll(v_offset, v_diff, -1, past)

\* lines 196-197: KEY_RIGHT
KeyRight == KeyScroll(v_offset, v_diff, 1, past)

\* lines 198-199: KEY_UP, 'k', 'y'
KeyUpPast == KeyScroll(v_offset, -1, h_diff, TRUE)

KeyUp == KeyScroll(v_offset, -1, h_diff, past)

\* lines 200-201: KEY_DOWN, 'e', 'j'
KeyDown == KeyScroll(v_offset, 1, h_diff, past)

\* lines 202-204: 'E', 'J'
KeyPastDown ==
    /\ v_offset + 1 <= res_max_height + MaxPast
    /\ KeyScroll(v_offset, 1, h_diff, TRUE)

\* lines 205-207: 'K', 'Y'
KeyPastUp ==
    /\ v_offset - 1 >= -MaxPast
    /\ KeyScroll(v_offset, -1, h_diff, TRUE)

\* lines 208-209: 'b'
KeyPageUp == KeyScroll(v_offset, -display_height, h_diff, past)

\* lines 210-211: ' ', 'f'
KeyPageDown == KeyScroll(v_offset, display_height, h_diff, past)

\* lines 212-213: 'd', +display_height // 2
KeyHalfDown == KeyScroll(v_offset, HalfPageDown(display_height), h_diff, past)

\* lines 214-215: 'u', -display_height // 2 is ( -display_height ) // 2
KeyHalfUp == KeyScroll(v_offset, HalfPageUp(display_height), h_diff, past)

\* lines 216-217: 'g'
KeyTopKeepsOffset == KeyScroll(v_offset, v_diff, h_diff, past)

KeyTop == KeyScroll(0, v_diff, h_diff, past)

\* lines 218-220: 'G'
KeyBottom == KeyScroll(0, sys_maxsize, h_diff, past)

\* lines 221-222: 'F'
KeyPinRefresh ==
    /\ GetchKey
    /\ v_end' = ~v_end
    /\ refresh' = 1
    /\ pc' = "start"
    /\ Running
    /\ UNCHANGED << v_offset, v_diff, h_diff, past >>

KeyPin ==
    /\ GetchKey
    /\ v_end' = ~v_end
    /\ pc' = "start"
    /\ Running
    /\ UNCHANGED << refresh, v_offset, v_diff, h_diff, past >>

\* lines 188-222: a key no branch tests for
KeyOtherRefresh ==
    /\ GetchKey
    /\ refresh' = 1
    /\ pc' = "start"
    /\ Running
    /\ UNCHANGED << v_offset, v_end, v_diff, h_diff, past >>

KeyOther ==
    /\ GetchKey
    /\ pc' = "start"
    /\ Running
    /\ UNCHANGED << refresh, v_offset, v_end, v_diff, h_diff, past >>

Next ==
    \/ Execute
    \/ ExecuteSpawnFails
    \/ ExecuteDecodeFails
    \/ Render
    \/ ComputeWait
    \/ KeyNone
    \/ KeyRefresh
    \/ KeyQuit
    \/ KeyLeft
    \/ KeyRight
    \/ KeyUp
    \/ KeyDown
    \/ KeyPastDown
    \/ KeyPastUp
    \/ KeyPageUp
    \/ KeyPageDown
    \/ KeyHalfDown
    \/ KeyHalfUp
    \/ KeyTop
    \/ KeyBottom
    \/ KeyPin
    \/ KeyOther

Spec == Init /\ [][Next]_vars

\* ------------------------------------------- the offset update taken alone
\* lines 124-138 applied to any offset, intent, pin flag, content height and
\* display height
InitViewport ==
    /\ pc = "render"
    /\ no_title = FALSE
    /\ now = 0
    /\ refresh = 0
    /\ last_time = 0
    /\ res_max_height \in 1..ViewMaxExtent
    /\ res_max_width = 0
    /\ res_lines = << >>
    /\ display_width = 0
    /\ screen = {}
    /\ display_height \in 0..ViewMaxDisplay
    /\ v_offset \in (-ViewMaxPast)..(ViewMaxExtent + ViewMaxPast)
    /\ h_offset = 0
    /\ v_end \in BOOLEAN
    /\ v_diff \in (-ViewMaxDelta)..ViewMaxDelta
    /\ h_diff = 0
    /\ past \in BOOLEAN
    /\ terminal = "curses"
    /\ exit_cause = "none"
    /\ executions = 1
    /\ grid_origin = 0
    /\ grid_count = 0

ApplyOffsets ==
    /\ pc = "render"
    /\ v_offset' = VOffsetUpdate(v_end, v_offset, v_diff, past, res_max_height,
                                 display_height)
    /\ \E dw \in 1..MaxScreenWidth :
        h_offset' = HOffsetUpdate(h_offset, h_diff, past, res_max_width, dw)
    /\ pc' = "wait"
    /\ Running
    /\ Untracked
    /\ UNCHANGED << no_title, now, refresh, last_time, res_max_height, res_max_width,
                    display_height, v_end, v_diff, h_diff, past, executions,
                    grid_origin, grid_count >>

NextViewport == ApplyOffsets

SpecViewport == InitViewport /\ [][NextViewport]_vars

\* -------------------------------------------- the drawing loop taken alone
\* the outputs of at most DrawMaxRows rows of at most DrawMaxLen characters
DrawContents ==
    UNION { [1..n -> 0..DrawMaxLen] : n \in 1..DrawMaxRows }

\* a command output has been processed ( lines 90-94 ) and the offsets are
\* anywhere; no scroll intent is pending and the pin is off
InitDraw ==
    /\ pc = "render"
    /\ no_title \in BOOLEAN
    /\ now = 0
    /\ refresh = 0
    /\ last_time = 0
    /\ res_lines \in DrawContents
    /\ res_max_height = Len(res_lines)
    /\ res_max_width = MaxLen(res_lines)
    /\ display_height = 0
    /\ display_width = 0
    /\ screen = {}
    /\ v_offset \in (-DrawMaxPast)..(DrawMaxRows + DrawMaxPast)
    /\ h_offset \in (-DrawMaxPast)..DrawMaxOffset
    /\ v_end = FALSE
    /\ v_diff = 0
    /\ h_diff = 0
    /\ past = FALSE
    /\ terminal = "curses"
    /\ exit_cause = "none"
    /\ executions = 1
    /\ grid_origin = 0
    /\ grid_count = 0

\* lines 96-165: the render step, with the display width and the addstr()
\* calls it makes
Draw ==
    /\ pc = "render"
    /\ \E screen_height \in 1..DrawMaxScreen, screen_width \in 1..DrawMaxScreen :
        LET th == TitleHeight(no_title)
            dh == screen_height - th
            dw == screen_width
            vo == VOffsetUpdate(v_end, v_offset, v_diff, past, res_max_height, dh)
            ho == HOffsetUpdate(h_offset, h_diff, past, res_max_width, dw)
        IN /\ display_height' = dh
           /\ display_width' = dw
           /\ v_offset' = vo
           /\ h_offset' = ho
           /\ screen' = DrawCalls(res_lines, vo, ho, dh, dw, th)
    /\ pc' = "wait"
    /\ Running
    /\ UNCHANGED << no_title, now, refresh, last_time, res_max_height, res_max_width,
                    res_lines, v_end, v_diff, h_diff, past, executions, grid_origin,
                    grid_count >>

NextDraw == Draw

SpecDraw == InitDraw /\ [][NextDraw]_vars

\* ----------------------------------------------------------------- claims
\* the step that runs the command (lines 73-94)
ExecuteStep == pc = "start" /\ pc' = "render"

\* the step that updates the offsets and draws (lines 96-165)
RenderStep == pc \in {"start", "render"} /\ pc' = "wait"

\* C1: a clamped vertical move with delta > 0 (pin off) that starts at or
\* below max(content_height - display_height, 0) ends at or below that bound
\* and not below the offset it started from.
C1_ClampedForwardStaysInBound ==
    [][(/\ RenderStep
        /\ ~v_end
        /\ ~past
        /\ v_diff > 0
        /\ v_offset <= EndOffset(res_max_height, display_height'))
       => (/\ v_offset' <= EndOffset(res_max_height, display_height')
           /\ v_offset' >= v_offset)]_vars

\* a clamped forward move has brought the offset to a bound above 0
C1_Witness ==
    /\ pc = "wait"
    /\ ~v_end
    /\ ~past
    /\ v_diff > 0
    /\ v_offset > 0
    /\ v_offset = EndOffset(res_max_height, display_height)

\* C2: while pin-to-end is on, the offset used by every render is
\* max(content_height - display_height, 0), whatever intent the previous key
\* left and whatever the content and display heights are.
C2_PinnedAtEnd ==
    (pc \in {"wait", "poll"} /\ v_end)
        => v_offset = EndOffset(res_max_height, display_height)

\* pinned, an unbounded intent is pending at the render, and the offset is
\* the end offset all the same
C2_Witness ==
    /\ pc = "wait"
    /\ v_end
    /\ past
    /\ v_diff # 0
    /\ res_max_height > display_height
    /\ v_offset = EndOffset(res_max_height, display_height)

\* C3 as stated: every refresh after the first one, timer-driven or manual,
\* moves last_time to its previous value plus one interval.
C3_Original ==
    [][(ExecuteStep /\ executions > 0) => last_time' = last_time + Interval]_vars

\* C3 as amended: a timer-driven refresh (refresh = 1) moves last_time to its
\* previous value plus one interval, whatever the clock says; the first
\* refresh and a manual one (refresh = 2) set it to the current time.
C3_ScheduledTime ==
    [][ExecuteStep =>
        (/\ refresh = 1 => last_time' = last_time + Interval
         /\ refresh = 2 => last_time' = now)]_vars

\* a timer-driven refresh has been scheduled and its execution took time
C3_Witness ==
    /\ pc = "render"
    /\ grid_count = 1
    /\ last_time = grid_origin + Interval
    /\ now > last_time

\* C4: after N consecutive timer-driven refreshes last_time is the value it
\* had before them plus N intervals, whatever the executions lasted.
C4_DriftCorrection ==
    executions > 0 => last_time = grid_origin + grid_count * Interval

\* two timer-driven refreshes in a row, each execution taking some time
C4_Witness ==
    /\ pc = "render"
    /\ grid_count = 2
    /\ last_time = grid_origin + 2 * Interval
    /\ now > last_time

\* C5: the timeout handed to the poll is never negative, and it is 0 when
\* the target time last_time + interval has been reached.
C5_TimeoutNonNegative ==
    pc = "poll" =>
        (/\ PollTimeout >= 0
         /\ now >= last_time + Interval => PollTimeout = 0)

\* the target time is so far behind that the rounded remaining time is negative
C5_Witness ==
    /\ pc = "poll"
    /\ Millis(Interval - (now - last_time)) < 0
    /\ PollTimeout = 0

\* C6 as stated: with a wait of zero, the command is executed at the start
\* of the very next iteration.
C6_Original ==
    [][(pc = "poll" /\ PollTimeout = 0) => (pc' = "start" /\ refresh' > 0)]_vars

\* C6 as amended: with a wait of zero, a poll that returns no event returns at
\* once and makes a refresh due, and a due refresh runs the command at the
\* start of the next iteration, before any render; the command is executed,
\* or the attempt fails and ends the program.
C6_ZeroWaitRefresh ==
    [][(/\ (pc = "poll" /\ PollTimeout = 0 /\ KeyNone)
            => (now' = now /\ pc' = "start" /\ refresh' = 1)
        /\ (pc = "start" /\ refresh > 0)
            => \/ ExecuteStep /\ refresh' = 0 /\ executions' = 1
               \/ pc' = "done" /\ exit_cause' \in {"spawn", "decode"})]_vars

\* a refresh is due after a poll that cannot have waited: the clock is a
\* whole millisecond past the target time
C6_Witness ==
    /\ pc = "start"
    /\ refresh = 1
    /\ now >= last_time + Interval + TicksPerMilli

\* C7 as stated: the arrow keys leave an intent of +1 or -1 in unbounded mode.
C7_Original ==
    [][(/\ (KeyUp \/ KeyDown) => (v_diff' \in {-1, 1} /\ past')
        /\ (KeyLeft \/ KeyRight) => (h_diff' \in {-1, 1} /\ past'))]_vars

\* C7 as amended: the arrow keys leave an intent of +1 or -1 in clamped mode;
\* with pin off the next render adds the delta to the offset only if the
\* result is neither below 0 (delta -1) nor above max(extent - display, 0)
\* (delta +1), and leaves the offset unchanged otherwise.
C7_ArrowKeysClamped ==
    [][(/\ KeyUp => (v_diff' = -1 /\ h_diff' = 0 /\ ~past')
        /\ KeyDown => (v_diff' = 1 /\ h_diff' = 0 /\ ~past')
        /\ KeyLeft => (h_diff' = -1 /\ v_diff' = 0 /\ ~past')
        /\ KeyRight => (h_diff' = 1 /\ v_diff' = 0 /\ ~past')
        /\ (RenderStep /\ ~v_end /\ ~past /\ v_diff = -1)
            => v_offset' = (IF v_offset - 1 >= 0 THEN v_offset - 1 ELSE v_offset)
        /\ (RenderStep /\ ~v_end /\ ~past /\ v_diff = 1)
            => v_offset' = (IF v_offset + 1 <= EndOffset(res_max_height, display_height')
                            THEN v_offset + 1 ELSE v_offset)
        /\ (RenderStep /\ ~past /\ h_diff = -1)
            => h_offset' = (IF h_offset - 1 >= 0 THEN h_offset - 1 ELSE h_offset)
        /\ (RenderStep /\ ~past /\ h_diff = 1)
            => \E dw \in 1..MaxScreenWidth :
                h_offset' = (IF h_offset + 1 <= EndOffset(res_max_width, dw)
                             THEN h_offset + 1 ELSE h_offset))]_vars

\* a clamped -1 has been applied and the offset is at 0
C7_Witness ==
    /\ pc = "wait"
    /\ ~v_end
    /\ ~past
    /\ v_diff = -1
    /\ v_offset = 0
    /\ res_max_height > display_height

\* C8: an unbounded move (pin off) adds the delta to the offset exactly,
\* wherever the offset is and whatever the content and display sizes are.
C8_UnboundedExact ==
    [][(/\ (RenderStep /\ ~v_end /\ past /\ v_diff # 0)
            => v_offset' = v_offset + v_diff
        /\ (RenderStep /\ past /\ h_diff # 0)
            => h_offset' = h_offset + h_diff)]_vars

\* an unbounded -1 has been applied and the offset is above the content
C8_Witness ==
    /\ pc = "wait"
    /\ ~v_end
    /\ past
    /\ v_diff = -1
    /\ v_offset < 0

\* C9 as stated: when the content fits in the display and v_offset is 0,
\* every vertical intent leaves v_offset at 0.
C9_Original ==
    [][(RenderStep /\ res_max_height <= display_height' /\ v_offset = 0)
       => v_offset' = 0]_vars

\* C9 as amended: when the content fits in the display and v_offset is 0,
\* every clamped vertical intent, and every intent while the pin is on,
\* leaves v_offset at 0; an unbounded one with the pin off moves it to delta.
C9_FittingContent ==
    [][(RenderStep /\ res_max_height <= display_height' /\ v_offset = 0)
       => v_offset' = (IF past /\ ~v_end THEN v_diff ELSE 0)]_vars

\* jump to bottom on content that fits: the offset is 0
C9_Witness ==
    /\ pc = "wait"
    /\ ~v_end
    /\ ~past
    /\ v_diff = sys_maxsize
    /\ res_max_height <= display_height
    /\ v_offset = 0

\* C10: content height 5, display height 3, pin off: from 0 a clamped +10
\* gives 2, from 2 an unbounded -1 gives 1, from 1 a clamped +1 gives 2; and
\* a clamped positive move from the bound max(extent - display, 0) stays there.
C10_Scenario ==
    [][(pc = "render" /\ pc' = "wait" /\ ~v_end) =>
        (/\ (res_max_height = 5 /\ display_height = 3 /\ v_offset = 0
                /\ ~past /\ v_diff = 10) => v_offset' = 2
         /\ (res_max_height = 5 /\ display_height = 3 /\ v_offset = 2
                /\ past /\ v_diff = -1) => v_offset' = 1
         /\ (res_max_height = 5 /\ display_height = 3 /\ v_offset = 1
                /\ ~past /\ v_diff = 1) => v_offset' = 2
         /\ (~past /\ v_diff > 0
                /\ v_offset = EndOffset(res_max_height, display_height))
                => v_offset' = v_offset)]_vars

\* the clamped +10 has been applied to content of height 5 on a display of 3
C10_Witness ==
    /\ pc = "wait"
    /\ ~v_end
    /\ ~past
    /\ v_diff = 10
    /\ res_max_height = 5
    /\ display_height = 3
    /\ v_offset = 2
\* C11: with pin off, the render that follows the jump-to-bottom key uses
\* v_offset = max(content_height - display_height, 0) and the render that
\* follows the jump-to-top key uses v_offset = 0, whatever v_offset was.
C11_JumpKeys ==
    [][(/\ KeyBottom => (/\ v_offset' = 0 /\ v_diff' = sys_maxsize /\ ~past'
                         /\ pc' = "start" /\ refresh' = 0)
        /\ KeyTop => (/\ v_offset' = 0 /\ v_diff' = 0 /\ ~past'
                      /\ pc' = "start" /\ refresh' = 0)
        /\ (RenderStep /\ ~v_end /\ ~past /\ v_offset = 0 /\ v_diff = sys_maxsize)
            => v_offset' = EndOffset(res_max_height, display_height')
        /\ (RenderStep /\ ~v_end /\ v_offset = 0 /\ v_diff = 0)
            => v_offset' = 0)]_vars

\* the jump to bottom has been applied to content longer than the display
C11_Witness ==
    /\ pc = "wait"
    /\ ~v_end
    /\ v_diff = sys_maxsize
    /\ res_max_height > display_height
    /\ v_offset = res_max_height - display_height

\* C12: the full-page keys leave clamped deltas of +display_height and
\* -display_height, and the half-page keys leave clamped deltas of equal
\* magnitude and opposite sign, for the display height of every poll.
C12_Original ==
    [][(/\ KeyPageDown => (v_diff' = display_height /\ ~past')
        /\ KeyPageUp => (v_diff' = -display_height /\ ~past')
        /\ KeyHalfDown => (v_diff' = HalfPageDown(display_height) /\ ~past')
        /\ KeyHalfUp => (v_diff' = -HalfPageDown(display_height) /\ ~past'))]_vars

\* C13: every path that leaves the loop (the quit key, a command that cannot
\* be spawned, output that cannot be decoded) restores the terminal; the
\* terminal is restored only then; once the loop is left no step follows; and
\* the quit key ends the loop from every state in which a key is polled.
C13_TeardownOnExit ==
    /\ pc = "done" =>
        (/\ terminal = "restored"
         /\ exit_cause \in {"quit", "spawn", "decode"}
         /\ ~ENABLED Next)
    /\ pc # "done" => (terminal = "curses" /\ exit_cause = "none")
    /\ pc = "poll" => ENABLED KeyQuit

\* the loop was left because the command could not be spawned, after the
\* command had been executed before, and the terminal is restored
C13_Witness ==
    /\ pc = "done"
    /\ exit_cause = "spawn"
    /\ executions = 1
    /\ terminal = "restored"

\* the cells of the content that lie in the viewport
\* [v_offset, v_offset + display_height) x [h_offset, h_offset + display_width),
\* each at display position (r - v_offset, c - h_offset) below the title
VisibleCells ==
    UNION { { << TitleHeight(no_title) + r - v_offset, col - h_offset, r, col >> :
                col \in { k \in 0..(res_lines[r + 1] - 1) :
                            h_offset <= k /\ k < h_offset + display_width } } :
            r \in { q \in 0..(Len(res_lines) - 1) :
                        v_offset <= q /\ q < v_offset + display_height } }

\* C14: a render draws exactly the intersection of the content with the
\* viewport, every content cell (r, c) at display position
\* (r - v_offset, c - h_offset); a row of length at most h_offset gets no
\* addstr() call, no call has a slice whose start exceeds its end, and
\* nothing is drawn when the intersection is empty (h_offset beyond the
\* longest row makes no call at all).
C14_RenderRectangle ==
    pc = "wait" =>
        /\ UNION { CallCells(call) : call \in screen } = VisibleCells
        /\ \A call \in screen :
            /\ res_lines[call.row + 1] > h_offset
            /\ call.from <= call.to
            /\ call.y - TitleHeight(no_title) \in 0..(display_height - 1)
            /\ call.x \in 0..(display_width - 1)
        /\ \A r \in 0..(Len(res_lines) - 1) :
            res_lines[r + 1] <= h_offset => ~(\E call \in screen : call.row = r)
        /\ VisibleCells = {} => \A call \in screen : CallCells(call) = {}
        /\ h_offset > DrawMaxLen => screen = {}

\* a partially visible content: a row cut on both sides is drawn next to a
\* row that is skipped, with the view starting before the first row
C14_Witness ==
    /\ pc = "wait"
    /\ \E call \in screen : call.from > 0 /\ call.to < res_lines[call.row + 1]
    /\ \E r \in 0..(Len(res_lines) - 1) :
        /\ v_offset <= r /\ r < v_offset + display_height
        /\ res_lines[r + 1] <= h_offset

\* C15: an iteration executes the command if a refresh is due, then renders,
\* then polls the input, once each; the command is executed in an iteration
\* exactly when it is the first one, or the poll before it returned no event
\* or the manual-refresh key; no render comes before the first execution.
C15_IterationOrder ==
    /\ [](executions = 0 => (pc = "done" \/ (pc = "start" /\ refresh = 2)))
    /\ [][(/\ (pc = "start" /\ refresh > 0) => (ExecuteStep \/ pc' = "done")
           /\ (pc = "start" /\ refresh = 0) => RenderStep
           /\ pc = "render" => RenderStep
           /\ pc = "wait" => pc' = "poll"
           /\ pc = "poll" => pc' \in {"start", "done"}
           /\ (pc = "poll" /\ pc' = "start")
                => (refresh' > 0 <=> (KeyNone \/ KeyRefresh))
           /\ ExecuteStep => (refresh > 0 /\ executions' = 1)
           /\ RenderStep => executions = 1)]_vars

\* an iteration that follows a scroll key renders without executing
C15_Witness ==
    /\ pc = "wait"
    /\ refresh = 0
    /\ v_diff # 0
    /\ executions = 1
    /\ grid_count > 0

\* C16: with the pin off, a refresh and a render without a scroll intent
\* leave both offsets unchanged, even when the new content is so short that
\* an offset is above max(extent - display, 0); a clamped positive move from
\* an offset above the bound and a clamped negative move from a negative
\* offset leave the offset unchanged.
C16_LazyReclamp ==
    [][(/\ ExecuteStep => UNCHANGED << v_offset, h_offset >>
        /\ (RenderStep /\ ~v_end /\ v_diff = 0) => v_offset' = v_offset
        /\ (RenderStep /\ h_diff = 0) => h_offset' = h_offset
        /\ (RenderStep /\ ~v_end /\ ~past /\ v_diff > 0
              /\ v_offset > EndOffset(res_max_height, display_height'))
            => v_offset' = v_offset
        /\ (RenderStep /\ ~v_end /\ ~past /\ v_diff < 0 /\ v_offset < 0)
            => v_offset' = v_offset
        /\ (RenderStep /\ ~past /\ h_diff > 0
              /\ h_offset > EndOffset(res_max_width, 1))
            => h_offset' = h_offset
        /\ (RenderStep /\ ~past /\ h_diff < 0 /\ h_offset < 0)
            => h_offset' = h_offset)]_vars

\* a refresh has shrunk the content below both offsets, and a render without
\* a scroll intent has kept them
C16_Witness ==
    /\ pc = "wait"
    /\ ~v_end
    /\ v_diff = 0
    /\ h_diff = 0
    /\ grid_count > 0
    /\ h_offset > EndOffset(res_max_width, 1)
    /\ v_offset > EndOffset(res_max_height, display_height)

\* C17 as stated: the next clamped move brings an offset that is outside
\* [0, max(extent - display, 0)] back inside, and a clamped move never takes
\* an offset that is inside the range outside of it.
C17_Original ==
    [][(/\ (RenderStep /\ ~v_end /\ ~past /\ v_diff # 0)
            => v_offset' \in 0..EndOffset(res_max_height, display_height')
        /\ (RenderStep /\ ~past /\ h_diff # 0)
            => \A dw \in 1..MaxScreenWidth :
                h_offset' = HOffsetUpdate(h_offset, h_diff, past, res_max_width, dw)
                    => h_offset' \in 0..EndOffset(res_max_width, dw))]_vars

\* C17 as amended: a clamped move toward the range moves an offset that is
\* outside of it by the delta, but not past the far bound of the range
\* (max(offset + delta, 0) from above, min(offset + delta, bound) from below),
\* so that it may still be outside; a clamped move away from the range leaves
\* it unchanged; and a clamped move never takes an offset that is inside the
\* range outside of it.
C17_ClampedReturn ==
    [][(/\ (RenderStep /\ ~v_end /\ ~past /\ v_diff < 0
              /\ v_offset > EndOffset(res_max_height, display_height'))
            => v_offset' = Max(v_offset + v_diff, 0)
        /\ (RenderStep /\ ~v_end /\ ~past /\ v_diff > 0 /\ v_offset < 0)
            => v_offset' = Min(v_offset + v_diff,
                               EndOffset(res_max_height, display_height'))
        /\ (RenderStep /\ ~v_end /\ ~past /\ v_diff > 0
              /\ v_offset > EndOffset(res_max_height, display_height'))
            => v_offset' = v_offset
        /\ (RenderStep /\ ~v_end /\ ~past /\ v_diff < 0 /\ v_offset < 0)
            => v_offset' = v_offset
        /\ (RenderStep /\ ~v_end /\ ~past /\ v_diff # 0
              /\ v_offset \in 0..EndOffset(res_max_height, display_height'))
            => v_offset' \in 0..EndOffset(res_max_height, display_height')
        /\ (RenderStep /\ ~past /\ h_diff < 0 /\ h_offset > 0)
            => h_offset' = Max(h_offset + h_diff, 0)
        /\ (RenderStep /\ ~past /\ h_diff # 0)
            => \A dw \in 1..MaxScreenWidth :
                (/\ h_offset' = HOffsetUpdate(h_offset, h_diff, past, res_max_width, dw)
                 /\ h_offset \in 0..EndOffset(res_max_width, dw))
                    => h_offset' \in 0..EndOffset(res_max_width, dw)
        /\ (RenderStep /\ ~past /\ h_diff > 0
              /\ h_offset > EndOffset(res_max_width, 1))
            => h_offset' = h_offset)]_vars

\* a clamped move up has been applied to an offset above the bound, and the
\* offset is still above the bound
C17_Witness ==
    /\ pc = "wait"
    /\ ~v_end
    /\ ~past
    /\ v_diff < 0
    /\ v_offset > EndOffset(res_max_height, display_height)

\* C18: the scroll intent of a key is applied by the render that follows the
\* poll and is discarded right after it; at most one of v_diff and h_diff is
\* non-zero at any time, and the iteration that follows a timeout or a key
\* without a scroll meaning has both at zero.
C18_TransientIntent ==
    /\ [](/\ v_diff = 0 \/ h_diff = 0
          /\ pc = "poll" => (v_diff = 0 /\ h_diff = 0 /\ ~past))
    /\ [][(/\ pc = "wait" => (v_diff' = 0 /\ h_diff' = 0 /\ ~past')
           /\ (ExecuteStep \/ RenderStep) => UNCHANGED << v_diff, h_diff, past >>
           /\ RenderStep => (v_diff = 0 \/ h_offset' = h_offset)
           /\ RenderStep => (h_diff = 0 \/ (v_end \/ v_offset' = v_offset))
           /\ (pc = "poll" /\ (\/ refresh' = 1 /\ KeyNone
                               \/ refresh' = 2 /\ KeyRefresh
                               \/ v_end' # v_end /\ KeyPin
                               \/ refresh' = 0 /\ v_end' = v_end /\ KeyOther))
                => (v_diff' = 0 /\ h_diff' = 0 /\ ~past'))]_vars

\* the intent of a KEY_RIGHT has been applied and discarded
C18_Witness ==
    /\ pc = "poll"
    /\ h_offset > 0
    /\ h_diff = 0
    /\ v_diff = 0

\* C19: h_offset is never negative, since the unbounded flag is only set
\* together with a vertical delta of +1 or -1; v_offset goes below 0 only in
\* the render that applies an unbounded vertical move.
C19_HOffsetNonNegative ==
    /\ [](/\ h_offset >= 0
          /\ past => (h_diff = 0 /\ v_diff \in {-1, 1}))
    /\ [][(/\ (~past /\ past') => (KeyPastDown \/ KeyPastUp)
           /\ (v_offset >= 0 /\ v_offset' < 0)
                => (RenderStep /\ ~v_end /\ past /\ v_diff = -1))]_vars

\* both axes have moved: v_offset below 0, h_offset to the right
C19_Witness ==
    /\ pc = "poll"
    /\ v_offset < 0
    /\ h_offset > 0

\* C20: a key other than the manual-refresh key leaves the refresh flag at
\* 0, so the next iteration renders without executing, and neither the key
\* nor that iteration changes last_time or the extents of the content: the
\* target time last_time + interval of the next refresh does not depend on
\* the keys pressed before it.
C20_KeysKeepSchedule ==
    [][(/\ (pc = "poll" /\ ~KeyNone /\ ~KeyRefresh)
            => /\ refresh = 0 /\ refresh' = 0
               /\ UNCHANGED << last_time, res_max_height, res_max_width,
                               executions, grid_origin, grid_count >>
        /\ (pc = "start" /\ refresh = 0)
            => /\ RenderStep
               /\ UNCHANGED << now, last_time, res_max_height, res_max_width,
                               executions, grid_origin, grid_count >>
        /\ (pc \in {"render", "wait"} \/ KeyNone)
            => UNCHANGED << last_time, res_max_height, res_max_width,
                            grid_origin, grid_count >>
        /\ (pc = "start" /\ refresh = 1)
            => last_time' = last_time + Interval)]_vars

\* keys have been pressed since the last refresh, and the timeout now in
\* force still runs to last_time + interval
C20_Witness ==
    /\ pc = "poll"
    /\ grid_count > 0
    /\ now > last_time
    /\ v_offset > 0
    /\ PollTimeout > 0

====
